---- MODULE Spec2Model ----
(***************************************************************************)
(* A model of restaurant.py: Inventory, Order, Department and Restaurant.   *)
(*                                                                         *)
(* Python objects are modelled by value, with one exception that the code   *)
(* makes observable: Department.reverse_required_time assigns               *)
(* copy(self.queue) to self.cache, a SHALLOW copy of a list of deques, so   *)
(* afterwards cache[i] and queue[i] are the very same deque object.  The    *)
(* field `shared` of a department records that identity; a write through    *)
(* cache[i] is then also a write to queue[i].                               *)
(***************************************************************************)
EXTENDS Integers, Sequences, FiniteSets, TLC

\* ---------------------------------------------------------------- bounds
\* Orders checked by one Restaurant (Spec).
MaxOrders == 3
\* Calls made on one Department (DeptSpec).
MaxCalls == 3
\* Items of one order.
MaxItems == 2
\* Arrival times are 0, 30, .., 30 * MaxTime seconds after the reference instant.
MaxTime == 2
\* Department capacities are 1..MaxCap.
MaxCap == 2

\* Minutes per task of the cooking department in the restaurant line.
TaskMinutes == {1, 2}
\* Time thresholds handed to check_order, in seconds.
Thresholds == {240, 360}
\* The item codes of the orders, as the sequence of their letters.
BLT == <<"B", "L", "T">>
VT == <<"V", "T">>
\* The stock of the restaurant line: patties, lettuce, tomato, veggie, bacon.
InitialCounts == <<2, 3, 4, 1, 5>>
\* Arrival times of orders.
ArrivalTimes == {45 * k : k \in 0..MaxTime}

\* ------------------------------------------------------------- helpers
Max(a, b) == IF a >= b THEN a ELSE b

Take(s, n) == IF Len(s) <= n THEN s ELSE SubSeq(s, 1, n)

RECURSIVE SumSeq(_)
SumSeq(s) == IF s = <<>> THEN 0 ELSE Head(s) + SumSeq(Tail(s))

RECURSIVE MaxSeq(_)
MaxSeq(s) == IF s = <<>> THEN 0 ELSE Max(Head(s), MaxSeq(Tail(s)))

\* The item lists of up to n items: k times code a, then code b.
ItemLists(a, b, n) ==
    {[i \in 1..m |-> IF i <= k THEN a ELSE b] : <<k, m>> \in
        {km \in (0..n) \X (0..n) : km[1] <= km[2]}}

\* ------------------------------------------------------------ Inventory
\* Inventory.__init__
Inventory(p, l, t, v, b) ==
    [patties |-> p, lettuce |-> l, tomato |-> t, veggie |-> v, bacon |-> b]

\* A raised exception, as the value an operator yields in place of a result.
Raised(type) == [exception |-> type]
IsRaised(x) == "exception" \in DOMAIN x

\* A slip in create_from_array: the five values taken in reverse order.
create_from_array_reversed(items) ==
    IF Len(items) = 5
    THEN Inventory(items[5], items[4], items[3], items[2], items[1])
    ELSE Raised("Exception")

\* Inventory.create_from_array: an Inventory of the five values, int(x) of an
\* integer being that integer, negative or not; any other length raises.
create_from_array(items) ==
    IF Len(items) = 5
    THEN Inventory(items[1], items[2], items[3], items[4], items[5])
    ELSE Raised("Exception")

\* str.count of one letter in one item code.
RECURSIVE CountIn(_, _)
CountIn(letter, code) ==
    IF code = <<>> THEN 0
    ELSE (IF Head(code) = letter THEN 1 ELSE 0) + CountIn(letter, Tail(code))

\* ''.join(items).count(letter)
RECURSIVE count(_, _)
count(letter, items) ==
    IF items = <<>> THEN 0
    ELSE CountIn(letter, Head(items)) + count(letter, Tail(items))

\* Inventory.create_from_order_items
create_from_order_items(items) ==
    LET p == Len(items)
        b == count("B", items)
        l == count("L", items)
        t == count("T", items)
        v == count("V", items)
    IN Inventory(p, l, t, v, b)

\* Inventory.as_array
as_array(inv) ==
    <<inv.patties, inv.lettuce, inv.tomato, inv.veggie, inv.bacon>>

\* Inventory.__sub__: the element-wise difference, an array.
Sub(inv, other_inv) ==
    [k \in 1..5 |-> as_array(inv)[k] - as_array(other_inv)[k]]

\* min(array)
MinOf(arr) == CHOOSE x \in {arr[k] : k \in 1..Len(arr)} :
                  \A k \in 1..Len(arr) : x <= arr[k]

\* ---------------------------------------------------------------- Order
\* Order.__init__ (order_time already relative to the reference instant).
Order(restaurant_id, order_time, items) ==
    [restaurant_id |-> restaurant_id,
     order_time    |-> order_time,
     items         |-> items,
     inventory_req |-> create_from_order_items(items),
     required_time |-> 0,
     status        |-> "None"]

\* ---------------------------------------------------------------- deque
\* The maxlen of the deques Department.__init__ puts in queue and in cache.
QueueMaxlen == 1
CacheMaxlen == 6

\* deque(maxlen=n), empty.
Deque(n) == [items |-> <<>>, maxlen |-> n]

\* A slip in appendleft: a full deque keeps what it has and drops the new
\* element.
appendleft_dropnew(dq, x) ==
    IF Len(dq.items) < dq.maxlen
    THEN [dq EXCEPT !.items = <<x>> \o dq.items]
    ELSE dq

\* deque.appendleft: a full deque drops its rightmost element.
appendleft(dq, x) == [dq EXCEPT !.items = Take(<<x>> \o dq.items, dq.maxlen)]

\* deque.__lt__: lexicographic on the elements, left to right.
RECURSIVE SeqLess(_, _)
SeqLess(a, b) ==
    IF b = <<>> THEN FALSE
    ELSE IF a = <<>> THEN TRUE
    ELSE IF Head(a) # Head(b) THEN Head(a) < Head(b)
    ELSE SeqLess(Tail(a), Tail(b))

DequeLess(a, b) == SeqLess(a.items, b.items)

\* A slip in append_time: the first deque of the list where min() is meant.
FirstIndex(list) == 1

\* A slip in append_time: max(self.cache) where min(self.cache) is meant.
MaxIndex(list) ==
    CHOOSE i \in 1..Len(list) :
        /\ \A j \in 1..Len(list) : ~DequeLess(list[i], list[j])
        /\ \A j \in 1..(i - 1) : DequeLess(list[j], list[i])

\* min(list of deques): the index of the first minimal element.
MinIndex(list) ==
    CHOOSE i \in 1..Len(list) :
        /\ \A j \in 1..Len(list) : ~DequeLess(list[j], list[i])
        /\ \A j \in 1..(i - 1) : DequeLess(list[i], list[j])

\* ----------------------------------------------------------- Department
\* A slip in Department.__init__: range(self.capacity - 1), one slot short.
DepartmentOneShort(name, capacity, task_time) ==
    [name      |-> name,
     capacity  |-> capacity,
     task_time |-> task_time,
     queue     |-> [i \in 1..(capacity - 1) |-> Deque(QueueMaxlen)],
     cache     |-> [i \in 1..(capacity - 1) |-> Deque(CacheMaxlen)],
     shared    |-> FALSE]

\* Department.__init__
Department(name, capacity, task_time) ==
    [name      |-> name,
     capacity  |-> capacity,
     task_time |-> task_time,
     queue     |-> [i \in 1..capacity |-> Deque(QueueMaxlen)],
     cache     |-> [i \in 1..capacity |-> Deque(CacheMaxlen)],
     shared    |-> FALSE]

\* A slip in append_time: no wait, whatever the deque holds.
WaitTimeNone(dq, order_time) == 0

\* A slip in append_time: the wait taken from cache[-1], the oldest entry.
WaitTimeOldest(dq, order_time) ==
    IF Len(dq.items) > 0 THEN Max(dq.items[Len(dq.items)] - order_time, 0) ELSE 0

\* The wait in Department.append_time for the chosen deque.
WaitTime(dq, order_time) ==
    IF Len(dq.items) > 0 THEN Max(dq.items[1] - order_time, 0) ELSE 0

\* The write of Department.append_time: cache[i].appendleft(x); a deque that
\* is also queue[i] changes there too.
WriteCache(dept, i, x) ==
    LET dq == appendleft(dept.cache[i], x)
    IN [dept EXCEPT !.cache[i] = dq,
                    !.queue[i] = IF dept.shared THEN dq ELSE @]

\* Department.append_time: the department afterwards, the value returned and
\* the slot chosen; min() of an empty list raises ValueError.
append_time(dept, order_time) ==
    IF Len(dept.cache) = 0
    THEN [dept |-> dept, ret |-> 0, slot |-> 0, raised |-> TRUE]
    ELSE LET i         == MinIndex(dept.cache)
             wait_time == WaitTime(dept.cache[i], order_time)
         IN [dept |-> WriteCache(dept, i,
                                 order_time + dept.task_time + wait_time),
             ret  |-> dept.task_time + wait_time,
             slot |-> i,
             raised |-> FALSE]

\* The loop of Department.required_time over the items still to place.
RECURSIVE DeptLoop(_, _, _, _, _)
DeptLoop(dept, order_time, n, req_time, rets) ==
    IF n = 0
    THEN [dept |-> dept, ret |-> req_time, rets |-> rets, raised |-> FALSE]
    ELSE LET r == append_time(dept, order_time)
         IN IF r.raised
            THEN [dept |-> dept, ret |-> req_time, rets |-> rets,
                  raised |-> TRUE]
            ELSE DeptLoop(r.dept, order_time, n - 1, Max(req_time, r.ret),
                          Append(rets, r.ret))

\* Department.required_time: the department afterwards, the value returned
\* and the values append_time returned, in call order; raised when an
\* append_time call raised.
dept_required_time(dept, order) ==
    DeptLoop(dept, order.order_time, Len(order.items), 0, <<>>)

\* Department.commit_required_time
commit_required_time(dept) ==
    [dept EXCEPT
        !.queue = [i \in 1..Len(dept.cache) |->
                      IF Len(dept.cache[i].items) > 0
                      THEN dept.cache[i] ELSE Deque(1)],
        !.shared = FALSE]

\* A slip in reverse_required_time: the cache is left as the order wrote it.
reverse_required_time_skipped(dept) == dept

\* Department.reverse_required_time
reverse_required_time(dept) ==
    [dept EXCEPT !.cache = dept.queue, !.shared = TRUE]

\* ------------------------------- the single-value-per-slot department
\* One next-available time per slot, committed (queue) and speculative
\* (cache); 0 is the time of a slot that has held nothing.  ret is the value
\* the last placing call returned.
RefDepartment(capacity, task_time) ==
    [task_time |-> task_time,
     queue     |-> [i \in 1..capacity |-> 0],
     cache     |-> [i \in 1..capacity |-> 0],
     ret       |-> 0]

\* No such department is run beside the restaurant of the program.
NoReference == RefDepartment(0, 0)

\* The first slot that is free earliest.
RefMinIndex(times) ==
    CHOOSE i \in 1..Len(times) :
        /\ \A j \in 1..Len(times) : times[i] <= times[j]
        /\ \A j \in 1..(i - 1) : times[j] > times[i]

\* Placing one item arriving at order_time.
ref_append_time(ref, order_time) ==
    LET i    == RefMinIndex(ref.cache)
        wait == Max(ref.cache[i] - order_time, 0)
    IN [ref EXCEPT !.cache[i] = order_time + ref.task_time + wait,
                   !.ret = ref.task_time + wait]

\* Placing n items arriving at order_time: the greatest value returned.
RECURSIVE RefLoop(_, _, _, _)
RefLoop(ref, order_time, n, req_time) ==
    IF n = 0 THEN [ref EXCEPT !.ret = req_time]
    ELSE LET r == ref_append_time(ref, order_time)
         IN RefLoop(r, order_time, n - 1, Max(req_time, r.ret))

ref_required_time(ref, order_time, n) == RefLoop(ref, order_time, n, 0)

\* Commit: the speculative times become the committed ones.
ref_commit(ref) == [ref EXCEPT !.queue = ref.cache]

\* Abort: the speculative times are the committed ones again.
ref_reverse(ref) == [ref EXCEPT !.cache = ref.queue]

\* ----------------------------------------------------------- Restaurant
VARIABLES
    departments,      \* Restaurant.departments: the list of Department objects
    inventory,        \* Restaurant.inventory: the committed Inventory
    cache_inventory,  \* Restaurant.cache_inventory: the last difference, or None
    total_time,       \* Restaurant.total_time
    time_threshold,   \* the threshold the run hands to every check_order
    order,            \* the Order object of the last call, as it was left
    call,             \* the last call: its name, arguments and results
    pre,              \* departments, inventory and total_time before the last call
    fresh,            \* the append_time calls so far, and whether nothing else was called
    accepted_time,    \* the sum of required_time over the orders accepted so far
    restaurants,      \* the keys of the restaurants dict of the program
    reference,        \* the single-value-per-slot department run beside a Department
    pc,               \* where the program is: "setup", "orders" or "crashed"
    ncalls            \* calls made so far

vars == <<departments, inventory, cache_inventory, total_time, time_threshold,
          order, call, pre, fresh, accepted_time, restaurants, reference, pc,
          ncalls>>

Depts == 1..Len(departments)

\* Restaurant.__init__
Restaurant(id, depts, inv) ==
    [id |-> id, departments |-> depts, inventory |-> inv,
     total_time |-> 0, cache_inventory |-> "None"]

\* A slip in check_inventory: max(...) < 0 where min(...) < 0 is meant.
check_inventory_max(inv, ord) ==
    LET diff == Sub(inv, ord.inventory_req)
    IN [cache_inventory |-> diff,
        ret |-> ~(\A k \in 1..Len(diff) : diff[k] < 0)]

\* Restaurant.check_inventory: the difference it stores and the value returned.
check_inventory(inv, ord) ==
    LET diff == Sub(inv, ord.inventory_req)
    IN [cache_inventory |-> diff, ret |-> ~(MinOf(diff) < 0)]

\* The loop of Restaurant.required_time over the departments from k on.
RECURSIVE RestLoop(_, _, _, _, _)
RestLoop(depts, ord, k, req_time, stages) ==
    IF k > Len(depts)
    THEN [departments |-> depts, ret |-> req_time, stages |-> stages,
          raised |-> FALSE]
    ELSE LET r == dept_required_time(depts[k], ord)
         IN IF r.raised
            THEN [departments |-> [depts EXCEPT ![k] = r.dept],
                  ret |-> req_time, stages |-> stages, raised |-> TRUE]
            ELSE RestLoop([depts EXCEPT ![k] = r.dept], ord, k + 1,
                          req_time + r.ret,
                          Append(stages, [ret |-> r.ret, rets |-> r.rets]))

\* A slip in Restaurant.required_time: each department is handed the time the
\* previous one finishes, not the arrival time of the order.
RECURSIVE RestLoopChained(_, _, _, _, _)
RestLoopChained(depts, ord, k, req_time, stages) ==
    IF k > Len(depts)
    THEN [departments |-> depts, ret |-> req_time, stages |-> stages,
          raised |-> FALSE]
    ELSE LET r == dept_required_time(depts[k],
                      [ord EXCEPT !.order_time = @ + req_time])
         IN RestLoopChained([depts EXCEPT ![k] = r.dept], ord, k + 1,
                            req_time + r.ret,
                            Append(stages, [ret |-> r.ret, rets |-> r.rets]))

required_time_chained(depts, ord) == RestLoopChained(depts, ord, 1, 0, <<>>)

\* Restaurant.required_time: the departments afterwards, the value returned
\* and what each Department.required_time call returned.
required_time(depts, ord) == RestLoop(depts, ord, 1, 0, <<>>)

\* Restaurant.commit_required_time
rest_commit_required_time(depts) ==
    [k \in 1..Len(depts) |-> commit_required_time(depts[k])]

\* Restaurant.reverse_required_time
rest_reverse_required_time(depts) ==
    [k \in 1..Len(depts) |-> reverse_required_time(depts[k])]

\* Restaurant.commit_inventory
commit_inventory(cache_inv) == create_from_array(cache_inv)

\* A slip in check_order: <= where < is meant.
WithinTimeOrEqual(req_time, threshold) == req_time <= threshold

\* The comparison of check_order with the time threshold.
WithinTime(req_time, threshold) == req_time < threshold

\* A slip in check_order: the total kept in minutes, as __repr__ prints it.
NewTotalMinutes(total, req_time) == total + (req_time \div 60)

\* The total check_order stores after an accepted order.
NewTotal(total, req_time) == total + req_time

\* The program state a call starts from.
Snapshot ==
    [departments |-> departments, inventory |-> inventory,
     total_time |-> total_time]

\* Restaurant.check_order on the restaurant st (departments, inventory,
\* total_time): the restaurant and the order afterwards, and what the call
\* computed on its way.  An exception of the time phase leaves the order
\* undecided and the caches of the departments as they were when it was raised.
check_order_result(st, ord, threshold) ==
    LET inv == check_inventory(st.inventory, ord)
        rt  == required_time(st.departments, ord)
        out == [departments     |-> st.departments,
                inventory       |-> st.inventory,
                total_time      |-> st.total_time,
                cache_inventory |-> inv.cache_inventory,
                order           |-> [ord EXCEPT !.status = "REJECTED"],
                raised          |-> FALSE,
                timed           |-> inv.ret,
                ret             |-> 0,
                stages          |-> <<>>,
                mid             |-> st.departments]
    IN IF ~inv.ret THEN out
       ELSE IF rt.raised
       THEN [out EXCEPT !.departments = rt.departments,
                        !.order = ord,
                        !.raised = TRUE,
                        !.mid = rt.departments]
       ELSE IF WithinTime(rt.ret, threshold)
       THEN [out EXCEPT !.inventory = commit_inventory(inv.cache_inventory),
                        !.departments = rest_commit_required_time(rt.departments),
                        !.total_time = NewTotal(st.total_time, rt.ret),
                        !.order = [ord EXCEPT !.status = "ACCEPTED",
                                              !.required_time = rt.ret],
                        !.ret = rt.ret,
                        !.stages = rt.stages,
                        !.mid = rt.departments]
       ELSE [out EXCEPT !.departments = rest_reverse_required_time(rt.departments),
                        !.ret = rt.ret,
                        !.stages = rt.stages,
                        !.mid = rt.departments]

\* restaurant.check_order(order, time_threshold) on the restaurant of the run.
check_order(ord, threshold) ==
    \E r \in {check_order_result(Snapshot, ord, threshold)} :
       /\ departments' = r.departments
       /\ inventory' = r.inventory
       /\ total_time' = r.total_time
       /\ cache_inventory' = r.cache_inventory
       /\ order' = r.order
       /\ accepted_time' = IF r.order.status = "ACCEPTED"
                           THEN accepted_time + r.order.required_time
                           ELSE accepted_time
       /\ pc' = IF r.raised THEN "crashed" ELSE pc
       /\ call' = [op         |-> "check_order",
                   order_time |-> ord.order_time,
                   threshold  |-> threshold,
                   timed      |-> r.timed,
                   raised     |-> r.raised,
                   ret        |-> r.ret,
                   slot       |-> 0,
                   stages     |-> r.stages,
                   mid        |-> r.mid]
       /\ pre' = Snapshot

\* The orders of the input.
Orders ==
    {Order("R1", t, items) : t \in ArrivalTimes,
                             items \in ItemLists(BLT, VT, MaxItems)}

\* Restaurant.create_from_line, of the fields of the line: the id, capacity
\* and minutes per task of cooking, asembling and packaging, then the stock.
\* An exception of create_from_array is raised again.
create_from_line(line) ==
    LET c_dept == Department("cooking", line[2], line[3] * 60)
        a_dept == Department("asembling", line[4], line[5] * 60)
        p_dept == Department("packaging", line[6], line[7] * 60)
        inv    == create_from_array(SubSeq(line, 8, Len(line)))
    IN IF IsRaised(inv) THEN Raised("Exception")
       ELSE Restaurant(line[1], <<c_dept, a_dept, p_dept>>, inv)

\* The restaurant lines of the input.
Lines ==
    {<<"R1", c, m, 1, 1, MaxCap, 1>> \o InitialCounts :
        c \in 1..MaxCap, m \in TaskMinutes}

\* No call made yet.
NoCall ==
    [op |-> "init", order_time |-> 0, threshold |-> 0, timed |-> FALSE,
     raised |-> FALSE, ret |-> 0, slot |-> 0, stages |-> <<>>, mid |-> <<>>]

\* A restaurant built from its line; no order checked yet.
Init ==
    \E line \in Lines, th \in Thresholds :
        LET r == create_from_line(line)
        IN /\ departments = r.departments
           /\ inventory = r.inventory
           /\ cache_inventory = r.cache_inventory
           /\ total_time = r.total_time
           /\ time_threshold = th
           /\ order = "None"
           /\ call = NoCall
           /\ pre = [departments |-> r.departments, inventory |-> r.inventory,
                     total_time |-> r.total_time]
           /\ fresh = [only_appends |-> TRUE, rets |-> <<>>]
           /\ accepted_time = 0
           /\ restaurants = {r.id}
           /\ reference = NoReference
           /\ pc = "orders"
           /\ ncalls = 0

\* The order loop of the program: one order checked per step.
CheckOrder ==
    /\ pc = "orders"
    /\ ncalls < MaxOrders
    /\ \E ord \in Orders : check_order(ord, time_threshold)
    /\ ncalls' = ncalls + 1
    /\ UNCHANGED <<time_threshold, fresh, restaurants, reference>>

Next == CheckOrder

Spec == Init /\ [][Next]_vars

\* ------------------------------------------- a Department called directly
\* One Department, as its tests build it, inside a restaurant of that single
\* department.
DeptInit ==
    \E c \in 1..MaxCap, m \in TaskMinutes :
        LET dept == Department("cooking", c, m * 60)
            r    == Restaurant("R1", <<dept>>, create_from_array(InitialCounts))
        IN /\ departments = r.departments
           /\ inventory = r.inventory
           /\ cache_inventory = r.cache_inventory
           /\ total_time = r.total_time
           /\ time_threshold = 0
           /\ order = "None"
           /\ call = NoCall
           /\ pre = [departments |-> r.departments, inventory |-> r.inventory,
                     total_time |-> r.total_time]
           /\ fresh = [only_appends |-> TRUE, rets |-> <<>>]
           /\ accepted_time = 0
           /\ restaurants = {r.id}
           /\ reference = RefDepartment(c, m * 60)
           /\ pc = "orders"
           /\ ncalls = 0

\* What a direct call leaves alone, and its bookkeeping.
DeptFrame ==
    /\ ncalls < MaxCalls
    /\ ncalls' = ncalls + 1
    /\ pre' = Snapshot
    /\ UNCHANGED <<inventory, cache_inventory, total_time, time_threshold,
                   accepted_time, restaurants, pc>>

DeptCall(op, t, ret, slot) ==
    [NoCall EXCEPT !.op = op, !.order_time = t, !.ret = ret, !.slot = slot]

\* dept.append_time(t)
AppendTime ==
    /\ DeptFrame
    /\ \E t \in ArrivalTimes :
        LET r == append_time(departments[1], t)
        IN /\ departments' = [departments EXCEPT ![1] = r.dept]
           /\ call' = DeptCall("append_time", t, r.ret, r.slot)
           /\ reference' = ref_append_time(reference, t)
           /\ fresh' = IF fresh.only_appends
                       THEN [fresh EXCEPT !.rets = Append(@, [order_time |-> t,
                                                              ret |-> r.ret])]
                       ELSE fresh
    /\ UNCHANGED order

\* The orders handed to a Department directly: it reads only the arrival time
\* and the number of items.
DeptOrders ==
    {Order("R1", t, [i \in 1..n |-> BLT]) : t \in ArrivalTimes, n \in 0..MaxItems}

\* dept.required_time(order)
DeptRequiredTime ==
    /\ DeptFrame
    /\ \E ord \in DeptOrders :
        LET r == dept_required_time(departments[1], ord)
        IN /\ departments' = [departments EXCEPT ![1] = r.dept]
           /\ call' = DeptCall("required_time", ord.order_time, r.ret, 0)
           /\ order' = ord
           /\ reference' = ref_required_time(reference, ord.order_time,
                                              Len(ord.items))
    /\ fresh' = [only_appends |-> FALSE, rets |-> <<>>]

\* dept.commit_required_time()
DeptCommit ==
    /\ DeptFrame
    /\ departments' = [departments EXCEPT ![1] = commit_required_time(@)]
    /\ call' = DeptCall("commit_required_time", 0, 0, 0)
    /\ reference' = ref_commit(reference)
    /\ fresh' = [only_appends |-> FALSE, rets |-> <<>>]
    /\ UNCHANGED order

\* dept.reverse_required_time()
DeptReverse ==
    /\ DeptFrame
    /\ departments' = [departments EXCEPT ![1] = reverse_required_time(@)]
    /\ call' = DeptCall("reverse_required_time", 0, 0, 0)
    /\ reference' = ref_reverse(reference)
    /\ fresh' = [only_appends |-> FALSE, rets |-> <<>>]
    /\ UNCHANGED order

DeptNext == AppendTime \/ DeptRequiredTime \/ DeptCommit \/ DeptReverse

DeptSpec == DeptInit /\ [][DeptNext]_vars

\* ------------------------------------------- batches on one Department
MaxBatches == 3

\* The sizes of the orders handed to a Department of capacity c: up to one
\* item in every deque of the cache beyond its maxlen.
BatchSizes(c) == {1, c, c + 1, CacheMaxlen * c + 1, (CacheMaxlen + 1) * c + 1}

\* dept.required_time(order) for an order of one of these sizes.
BatchRequiredTime ==
    /\ ncalls < MaxBatches
    /\ DeptFrame
    /\ \E t \in ArrivalTimes, n \in BatchSizes(departments[1].capacity) :
        \E r \in {dept_required_time(departments[1],
                                     Order("R1", t, [i \in 1..n |-> BLT]))} :
            /\ departments' = [departments EXCEPT ![1] = r.dept]
            /\ call' = DeptCall("required_time", t, r.ret, 0)
            /\ order' = Order("R1", t, [i \in 1..n |-> BLT])
            /\ reference' = ref_required_time(reference, t, n)
    /\ fresh' = [only_appends |-> FALSE, rets |-> <<>>]

\* dept.commit_required_time() between batches.
BatchCommit == ncalls < MaxBatches /\ DeptCommit

\* dept.reverse_required_time() between batches.
BatchReverse == ncalls < MaxBatches /\ DeptReverse

BatchNext == BatchRequiredTime \/ BatchCommit \/ BatchReverse

BatchSpec == DeptInit /\ [][BatchNext]_vars

\* ------------------------------------------------------ the whole program
\* The stocks of the restaurant lines of the program's input: a good one, one
\* with a negative count, one a value short.
StockFields == {InitialCounts, <<-1, 3, 4, 1, 5>>, <<2, 3, 4, 1>>}

\* The restaurant lines of the program's input: cooking of 0..MaxCap slots.
MainLines ==
    {<<"R1", c, 7, 1, 7, 1, 6>> \o stock : c \in 0..MaxCap, stock \in StockFields}

\* The order lines of the program's input, for restaurant R1 or R2.
MainOrders ==
    {Order(rid, t, items) : rid \in {"R1", "R2"}, t \in ArrivalTimes,
                            items \in ItemLists(BLT, VT, MaxItems)}

\* The program before it reads its input.
MainInit ==
    /\ pc = "setup"
    /\ departments = <<>>
    /\ inventory = "None"
    /\ cache_inventory = "None"
    /\ total_time = 0
    /\ time_threshold = 0
    /\ restaurants = {}
    /\ order = "None"
    /\ call = NoCall
    /\ pre = [departments |-> <<>>, inventory |-> "None", total_time |-> 0]
    /\ fresh = [only_appends |-> TRUE, rets |-> <<>>]
    /\ accepted_time = 0
    /\ reference = NoReference
    /\ ncalls = 0

\* The setup of the program: the restaurant of the first line, the dict of
\* restaurants and the threshold of 21 minutes.  An exception of
\* create_from_line ends the program.
Setup ==
    /\ pc = "setup"
    /\ \E line \in MainLines :
        \E r \in {create_from_line(line)} :
            /\ call' = [op |-> "create_from_line", line |-> line,
                        raised |-> IsRaised(r)]
            /\ IF IsRaised(r)
               THEN /\ pc' = "failed"
                    /\ UNCHANGED <<departments, inventory, cache_inventory,
                                   total_time, time_threshold, restaurants>>
               ELSE /\ pc' = "orders"
                    /\ departments' = r.departments
                    /\ inventory' = r.inventory
                    /\ cache_inventory' = r.cache_inventory
                    /\ total_time' = r.total_time
                    /\ restaurants' = {r.id}
                    /\ time_threshold' = 21 * 60
    /\ pre' = Snapshot
    /\ UNCHANGED <<order, fresh, accepted_time, reference, ncalls>>

\* One turn of the order loop for an order whose restaurant_id is a key of
\* restaurants.
CheckKnown ==
    /\ pc = "orders"
    /\ ncalls < MaxOrders
    /\ \E ord \in MainOrders :
        /\ ord.restaurant_id \in restaurants
        /\ check_order(ord, time_threshold)
    /\ ncalls' = ncalls + 1
    /\ UNCHANGED <<time_threshold, fresh, restaurants, reference>>

\* One turn of the order loop for an order whose restaurant_id is no key of
\* restaurants: restaurants[order.restaurant_id] raises KeyError, which
\* nothing catches.
CheckUnknown ==
    /\ pc = "orders"
    /\ ncalls < MaxOrders
    /\ \E ord \in MainOrders :
        /\ ord.restaurant_id \notin restaurants
        /\ order' = ord
        /\ call' = [op |-> "KeyError", raised |-> TRUE]
    /\ pc' = "crashed"
    /\ pre' = Snapshot
    /\ ncalls' = ncalls + 1
    /\ UNCHANGED <<departments, inventory, cache_inventory, total_time,
                   time_threshold, restaurants, fresh, accepted_time,
                   reference>>

MainNext == Setup \/ CheckKnown \/ CheckUnknown

MainSpec == MainInit /\ [][MainNext]_vars

\* ================================================================ claims
\* The committed schedule of every department: the finish times of each slot
\* of its queue.
Committed(depts) ==
    [d \in 1..Len(depts) |->
        [i \in 1..Len(depts[d].queue) |-> depts[d].queue[i].items]]

\* The speculative schedule of every department: the finish times of each
\* slot of its cache.
Speculative(depts) ==
    [d \in 1..Len(depts) |->
        [i \in 1..Len(depts[d].cache) |-> depts[d].cache[i].items]]

Checked == call.op = "check_order"
Accepted == Checked /\ order.status = "ACCEPTED"
Rejected == Checked /\ order.status = "REJECTED"

\* The order's requirement is covered by the stock the call started from.
Sufficient ==
    \A k \in 1..5 :
        as_array(pre.inventory)[k] - as_array(order.inventory_req)[k] >= 0

\* C1: an order that check_order rejects, for either reason, leaves the
\* committed inventory and the committed schedule (queue) of every department
\* as they were before the call.
C1_RejectionLeavesCommittedState ==
    Rejected => /\ inventory = pre.inventory
                /\ Committed(departments) = Committed(pre.departments)

\* C2: after an order rejected for insufficient time, the speculative schedule
\* (cache) of every department equals, slot by slot, the committed schedule
\* (queue) as it was before the evaluation of that order began.
C2_AbortRollsBack ==
    (Rejected /\ call.timed) =>
        Speculative(departments) = Committed(pre.departments)

\* C3: check_order sets ACCEPTED exactly when the stock covers the requirement
\* and the total required time is strictly less than the threshold, and
\* REJECTED otherwise; an accepted order carries that total as required_time.
C3_DecisionRule ==
    Checked =>
        LET total == required_time(pre.departments, order).ret
        IN /\ order.status \in {"ACCEPTED", "REJECTED"}
           /\ order.status = "ACCEPTED" <=>
                  (Sufficient /\ total < call.threshold)
           /\ order.status = "ACCEPTED" => order.required_time = total

\* C3 witness: a total time equal to the threshold, rejected.
C3_Witness ==
    /\ Rejected /\ Sufficient
    /\ required_time(pre.departments, order).ret = call.threshold

\* C4: after an accepted order the committed inventory is the inventory before
\* the call minus the requirement of the order, for each of the five kinds.
C4_StockConservation ==
    Accepted =>
        /\ inventory.patties = pre.inventory.patties - order.inventory_req.patties
        /\ inventory.lettuce = pre.inventory.lettuce - order.inventory_req.lettuce
        /\ inventory.tomato = pre.inventory.tomato - order.inventory_req.tomato
        /\ inventory.veggie = pre.inventory.veggie - order.inventory_req.veggie
        /\ inventory.bacon = pre.inventory.bacon - order.inventory_req.bacon

\* C4 witness: a second accepted order, one that takes of several kinds.
C4_Witness ==
    /\ Accepted
    /\ pre.inventory # create_from_array(InitialCounts)
    /\ order.inventory_req.patties > 0
    /\ order.inventory_req.veggie > 0

\* C5: when some kind of the stock does not cover the requirement, check_order
\* rejects and leaves the cache and the queue of every department unchanged.
C5_InventoryRejectionTouchesNoStage ==
    (Checked /\ ~Sufficient) =>
        /\ order.status = "REJECTED"
        /\ departments = pre.departments

\* C5 witness: an order short of stock that would also have needed at least
\* the threshold, met by departments with work already scheduled.
C5_Witness ==
    /\ Checked /\ ~Sufficient /\ order.status = "REJECTED"
    /\ required_time(pre.departments, order).ret >= call.threshold
    /\ pre.departments[1].cache[1].items # <<>>

\* C6: Restaurant.required_time returns the sum over the departments, in
\* pipeline order, of the stage time of each, a stage time being the maximum
\* of the durations of the order's items, every department being given the
\* arrival time of the order.
C6_TotalTimeAggregation ==
    (Checked /\ call.timed) =>
        /\ Len(call.stages) = Len(pre.departments)
        /\ call.ret = SumSeq([d \in 1..Len(pre.departments) |->
                                dept_required_time(pre.departments[d], order).ret])
        /\ \A d \in 1..Len(call.stages) :
              /\ call.stages[d].ret =
                     dept_required_time(pre.departments[d], order).ret
              /\ call.stages[d].ret = MaxSeq(call.stages[d].rets)
              /\ Len(call.stages[d].rets) = Len(order.items)

\* C6 witness: an order whose items wait in a later department.
C6_Witness ==
    /\ Checked /\ call.timed
    /\ call.stages[2].ret > pre.departments[2].task_time
    /\ Len(order.items) > 1

\* C7: on a freshly built Department of capacity c and task time d, each of
\* the first c append_time calls at one arrival time returns d, and the
\* (c+1)-th call at that arrival time returns 2d.
C7_AllocatorMonotonicity ==
    LET c == departments[1].capacity
        d == departments[1].task_time
        n == Len(fresh.rets)
    IN (/\ fresh.only_appends
        /\ \A i, j \in 1..n : fresh.rets[i].order_time = fresh.rets[j].order_time)
       => \A k \in 1..n : /\ k <= c => fresh.rets[k].ret = d
                          /\ k = c + 1 => fresh.rets[k].ret = 2 * d

\* C7 witness: c + 1 calls at one arrival time on a department of two slots
\* or more.
C7_Witness ==
    /\ fresh.only_appends
    /\ departments[1].capacity >= 2
    /\ Len(fresh.rets) = departments[1].capacity + 1
    /\ \A i, j \in 1..Len(fresh.rets) :
          fresh.rets[i].order_time = fresh.rets[j].order_time

\* The slot append_time chose, as it was before the call.
ChosenBefore == pre.departments[1].cache[call.slot]

\* C8: append_time, placing an item that arrives at t on a slot whose most
\* recent finish time is f, returns d + (f - t) if t < f and d if t >= f, and
\* pushes t plus the value returned as the most recent finish time of the slot.
C8_WaitTime ==
    (call.op = "append_time" /\ ChosenBefore.items # <<>>) =>
        LET f == ChosenBefore.items[1]
            t == call.order_time
            d == pre.departments[1].task_time
        IN /\ t < f => call.ret = d + (f - t)
           /\ t >= f => call.ret = d
           /\ departments[1].cache[call.slot].items[1] = t + call.ret

\* C8 witness: an item that waits behind two earlier items of its slot.
C8_Witness ==
    /\ call.op = "append_time"
    /\ Len(ChosenBefore.items) >= 2
    /\ call.order_time < ChosenBefore.items[1]

\* C8 witness of the other case: an item arriving when its slot is free again.
C8_WitnessNoWait ==
    /\ call.op = "append_time"
    /\ ChosenBefore.items # <<>>
    /\ call.order_time >= ChosenBefore.items[1]

\* C10: Department.required_time and its append_time calls leave the committed
\* schedule (queue) of the department as it was before the call.
C10_SpeculationLeavesQueue ==
    (Checked /\ call.timed) =>
        Committed(call.mid) = Committed(pre.departments)

\* C11: every count of the committed inventory is >= 0 after any sequence of
\* check_order calls on a stock that starts >= 0; a negative difference stays
\* in cache_inventory and the order that produced it is rejected.
C11_StockNeverNegative ==
    /\ \A k \in 1..5 : as_array(inventory)[k] >= 0
    /\ (Checked /\ \E k \in 1..5 : cache_inventory[k] < 0) =>
           (Rejected /\ inventory = pre.inventory)

\* C11 witness: a negative difference left in cache_inventory.
C11_Witness ==
    Checked /\ \E k \in 1..5 : cache_inventory[k] < 0

\* C12: between two check_order calls every department has as many queue
\* slots and cache slots as its capacity and its cache equals its queue slot
\* by slot; after a commit the queue is the cache the accepted order produced.
C12_ScheduleAgreement ==
    /\ \A d \in Depts :
          /\ Len(departments[d].queue) = departments[d].capacity
          /\ Len(departments[d].cache) = departments[d].capacity
    /\ Speculative(departments) = Committed(departments)
    /\ Accepted => Committed(departments) = Speculative(call.mid)

\* C12 witness: an abort that has to take back what the order wrote over a
\* committed schedule with work in it.
C12_Witness ==
    /\ Rejected /\ call.timed
    /\ pre.departments[1].queue[1].items # <<>>
    /\ Speculative(call.mid) # Speculative(pre.departments)

\* C13: check_order returns every order with its status moved from None to
\* ACCEPTED or REJECTED; neither rejection is raised as an exception, and the
\* program goes on to the next order.
C13_DecidedOnce ==
    Checked => /\ ~call.raised
               /\ pc = "orders"
               /\ order.status \in {"ACCEPTED", "REJECTED"}

\* C13 witness: a second or later order, rejected for time and returned.
C13_Witness ==
    /\ Rejected /\ call.timed /\ ~call.raised
    /\ ncalls >= 2

\* What setup fixes of the departments: their names, capacities and task times.
Pipeline(depts) ==
    [d \in 1..Len(depts) |->
        <<depts[d].name, depts[d].capacity, depts[d].task_time>>]

\* C14: total_time is the sum of required_time over the orders accepted so
\* far; a rejected order changes neither the inventory nor total_time; the
\* list of departments stays as setup made it.
C14_ChangesOnlyOnCommit ==
    /\ total_time = accepted_time
    /\ Rejected => (inventory = pre.inventory /\ total_time = pre.total_time)
    /\ Accepted => total_time = pre.total_time + order.required_time
    /\ Pipeline(departments) = Pipeline(pre.departments)

\* C14 witness: a rejected order after accepted ones.
C14_Witness ==
    Rejected /\ total_time > 0 /\ accepted_time > 0

\* The program has a restaurant: setup ended without an exception.
Constructed == pc \in {"orders", "crashed"}

\* C15: a Department of capacity <= 0 fails at construction, so the program
\* never has a restaurant with such a department and no order is ever checked
\* against one.
C15_ZeroCapacityRejected ==
    /\ Constructed => \A d \in Depts : departments[d].capacity > 0
    /\ Checked => \A d \in 1..Len(pre.departments) :
                      pre.departments[d].capacity > 0

\* The stock fields of the restaurant line that setup read.
StockOfLine == SubSeq(call.line, 8, Len(call.line))

\* C16: create_from_array fails unless it is given exactly five values, each
\* a non-negative integer, and otherwise yields an Inventory of those five
\* counts in the order patties, lettuce, tomato, veggie, bacon.
C16_StockValidation ==
    call.op = "create_from_line" =>
        IF Len(StockOfLine) # 5 \/ \E k \in 1..Len(StockOfLine) : StockOfLine[k] < 0
        THEN pc = "failed"
        ELSE /\ pc = "orders"
             /\ inventory.patties = StockOfLine[1]
             /\ inventory.lettuce = StockOfLine[2]
             /\ inventory.tomato = StockOfLine[3]
             /\ inventory.veggie = StockOfLine[4]
             /\ inventory.bacon = StockOfLine[5]

\* C17: an order naming an unknown restaurant is given no decision, changes
\* nothing of the restaurant and does not keep the program from checking the
\* orders after it.
C17_UnknownRestaurantSkipped ==
    call.op = "KeyError" =>
        /\ order.status = "None"
        /\ Snapshot = pre
        /\ pc = "orders"

\* What a check_order call decides and leaves committed.
Outcome(r) ==
    <<r.order.status, r.order.required_time, r.inventory, r.total_time>>

\* C18: a rejected order has no influence on later decisions: whatever order
\* comes next, its status and required_time and the inventory and total_time
\* it leaves are those it would have had without the rejected order.
C18_RejectedOrdersLeaveNoTrace ==
    Rejected =>
        \A o \in Orders :
            Outcome(check_order_result(Snapshot, o, time_threshold))
                = Outcome(check_order_result(pre, o, time_threshold))

\* The time from which a slot can take an item arriving at t: t for an empty
\* slot and for one whose most recent finish time is past.
NextAvailable(dq, t) == IF dq.items = <<>> THEN t ELSE Max(dq.items[1], t)

\* C19: append_time places the item on a slot of minimal next-available time,
\* an empty slot before any other, and returns task_time plus the time from t
\* to the least next-available time of all slots (0 if that is past), which
\* no slot could improve on.
C19_GreedyEarliestAvailable ==
    call.op = "append_time" =>
        LET before == pre.departments[1].cache
            t      == call.order_time
            d      == pre.departments[1].task_time
        IN /\ call.slot \in 1..Len(before)
           /\ (\E j \in 1..Len(before) : before[j].items = <<>>)
                  => ChosenBefore.items = <<>>
           /\ \A j \in 1..Len(before) :
                 /\ NextAvailable(ChosenBefore, t) <= NextAvailable(before[j], t)
                 /\ before[j].items # <<>> /\ ChosenBefore.items # <<>>
                       => ChosenBefore.items[1] <= before[j].items[1]
                 /\ call.ret <= d + Max(NextAvailable(before[j], t) - t, 0)
           /\ \E j \in 1..Len(before) :
                 call.ret = d + Max(NextAvailable(before[j], t) - t, 0)

\* C19 witness: every slot holds items and a slot other than the first is
\* the one that is free earliest.
C19_Witness ==
    /\ call.op = "append_time"
    /\ \A j \in 1..Len(pre.departments[1].cache) :
          pre.departments[1].cache[j].items # <<>>
    /\ call.slot > 1
    /\ ChosenBefore.items[1] < pre.departments[1].cache[1].items[1]

\* Every slot of the department is free at t.
AllIdle(dept, t) ==
    \A i \in 1..Len(dept.cache) :
        dept.cache[i].items = <<>> \/ dept.cache[i].items[1] <= t

\* C20: on a Department of capacity c and task time d whose slots are all
\* idle, required_time for an order of n >= 1 items returns ceil(n / c) * d,
\* also when n exceeds CacheMaxlen * c.
C20_BatchOnIdleStage ==
    LET c == pre.departments[1].capacity
        d == pre.departments[1].task_time
        n == Len(order.items)
    IN (/\ call.op = "required_time"
        /\ n >= 1
        /\ AllIdle(pre.departments[1], call.order_time))
       => call.ret = ((n + c - 1) \div c) * d

\* C20 witness: an order of more than CacheMaxlen * c items on an idle
\* department that has placed items before.
C20_Witness ==
    /\ call.op = "required_time"
    /\ AllIdle(pre.departments[1], call.order_time)
    /\ Len(order.items) > CacheMaxlen * pre.departments[1].capacity
    /\ \E i \in 1..Len(pre.departments[1].cache) :
          pre.departments[1].cache[i].items # <<>>

\* The most recent finish time of every slot, 0 for a slot that holds none.
Heads(list) ==
    [i \in 1..Len(list) |->
        IF list[i].items = <<>> THEN 0 ELSE list[i].items[1]]

\* Two sequences hold the same values the same number of times.
SameMultiset(a, b) ==
    /\ Len(a) = Len(b)
    /\ \A v \in {a[i] : i \in 1..Len(a)} \cup {b[i] : i \in 1..Len(b)} :
          Cardinality({i \in 1..Len(a) : a[i] = v})
              = Cardinality({i \in 1..Len(b) : b[i] = v})

\* C21: over every sequence of append_time, required_time,
\* commit_required_time and reverse_required_time calls, the durations
\* returned and the multiset of the slots' most recent finish times are those
\* of a department that keeps one next-available time per slot.
C21_SingleValueEquivalence ==
    /\ call.op \in {"append_time", "required_time"} => call.ret = reference.ret
    /\ SameMultiset(Heads(departments[1].cache), reference.cache)

\* The entries of a slot lie at least d apart, the most recent first.
Spaced(dq, d) ==
    \A k \in 1..(Len(dq.items) - 1) : dq.items[k] - dq.items[k + 1] >= d

\* The items the slots of list hold: slot and place in the slot.
Entries(list) ==
    UNION {{<<i, k>> : k \in 1..Len(list[i].items)} : i \in 1..Len(list)}

\* The items of list in process at the instant tau, an item that finishes at
\* f being in process from f - d up to f.
InProcess(list, d, tau) ==
    {e \in Entries(list) :
        /\ list[e[1]].items[e[2]] - d <= tau
        /\ tau < list[e[1]].items[e[2]]}

\* C22: the finish time append_time pushes for an item arriving at t lies
\* task_time or more after t and after the slot's previous finish time; so
\* the entries of every slot, committed or speculative, lie task_time or more
\* apart, and at no instant are more than capacity items in process.
C22_NoDoubleBooking ==
    LET dept == departments[1]
        d    == dept.task_time
    IN /\ call.op = "append_time" =>
              LET f_new == dept.cache[call.slot].items[1]
              IN /\ f_new - d >= call.order_time
                 /\ ChosenBefore.items # <<>> => f_new - d >= ChosenBefore.items[1]
       /\ \A list \in {dept.cache, dept.queue} :
             /\ \A i \in 1..Len(list) : Spaced(list[i], d)
             /\ \A e \in Entries(list) :
                   Cardinality(InProcess(list, d, list[e[1]].items[e[2]] - d))
                       <= dept.capacity

\* C22 witness: every slot of a department of two slots or more is busy and
\* the item is placed behind the one that finishes first.
C22_Witness ==
    /\ call.op = "append_time"
    /\ pre.departments[1].capacity >= 2
    /\ \A j \in 1..Len(pre.departments[1].cache) :
          /\ pre.departments[1].cache[j].items # <<>>
          /\ pre.departments[1].cache[j].items[1] > call.order_time
    /\ Len(departments[1].cache[call.slot].items) >= 2

\* C23: an order without items requires no ingredient and no time, so under
\* a threshold > 0 it is accepted with required_time 0 and leaves the
\* inventory, total_time and the most recent finish time of every slot of
\* every department as they were.
C23_EmptyOrder ==
    (Checked /\ order.items = <<>> /\ call.threshold > 0) =>
        /\ \A k \in 1..5 : as_array(order.inventory_req)[k] = 0
        /\ Accepted
        /\ order.required_time = 0
        /\ call.ret = 0
        /\ inventory = pre.inventory
        /\ total_time = pre.total_time
        /\ \A d \in Depts :
              /\ Heads(departments[d].cache) = Heads(pre.departments[d].cache)
              /\ Heads(departments[d].queue) = Heads(pre.departments[d].queue)

====
